---- MODULE Spec2Model ----
(***************************************************************************)
(* LightningACO (src/ant_lightning.py): ant-colony routing of a payment   *)
(* over a channel graph.  One solver object, constructed over one         *)
(* topology with one parameter set, receives up to MaxSolves solve()      *)
(* calls.  Each call is followed statement by statement: pheromone        *)
(* initialisation, the iteration loop, the ant loop, the while loop of    *)
(* _construct_path (one edge selection per step), the collection of the   *)
(* ant's result, the pheromone update, the return.                        *)
(*                                                                         *)
(* Numbers.  Money (fees, Q, liquidity, amounts) is counted in units of   *)
(* 1e-9, so that the selector's epsilon 1e-9 is the integer Epsilon and   *)
(* every fee is an integer.  Pheromone levels, weights, probabilities and *)
(* the draw r are exact rationals <<numerator, denominator>>.  Measuring  *)
(* 1/(fee + 1e-9) in inverse units multiplies every weight of a selection *)
(* by the same positive factor, which changes neither the test            *)
(* total_prob == 0 nor the normalised probabilities.  The rounding of     *)
(* floating point is not modelled, except for the one place the code      *)
(* provides for it: the draw RTop stands for a draw that the rounded      *)
(* cumulative sum fails to reach (the fallback of line 140).              *)
(*                                                                         *)
(* Two specifications.  Spec runs the solver over a family of small       *)
(* topologies and parameter sets, valid and invalid.  SpecDemo runs the   *)
(* script at the end of the source file: the demo network, the demo       *)
(* parameters (with DemoAnts ants and DemoIterations iterations) and the  *)
(* call solve('A', 'D', 100).                                             *)
(***************************************************************************)
EXTENDS Integers, Sequences, FiniteSets

\* ------------------------------------------------------------ rationals
Abs(n) == IF n < 0 THEN -n ELSE n

RECURSIVE GCD(_, _)
GCD(a, b) == IF b = 0 THEN a ELSE GCD(b, a % b)

\* n/d in lowest terms with a positive denominator (d # 0)
Norm(n, d) ==
    LET s == IF d < 0 THEN -1 ELSE 1
        g == GCD(Abs(n), Abs(d))
    IN  << (s * n) \div g, (s * d) \div g >>

Zero == << 0, 1 >>
One == << 1, 1 >>
\* sums go over the least common denominator and products cancel crosswise
\* first, which keeps the intermediate integers small
RAdd(a, b) ==
    LET g == GCD(Abs(a[2]), Abs(b[2]))
    IN  Norm(a[1] * (b[2] \div g) + b[1] * (a[2] \div g), a[2] * (b[2] \div g))
RSub(a, b) ==
    LET g == GCD(Abs(a[2]), Abs(b[2]))
    IN  Norm(a[1] * (b[2] \div g) - b[1] * (a[2] \div g), a[2] * (b[2] \div g))
RMul(a, b) ==
    LET g == GCD(Abs(a[1]), Abs(b[2]))
        h == GCD(Abs(b[1]), Abs(a[2]))
    IN  IF g = 0 \/ h = 0 THEN Norm(a[1] * b[1], a[2] * b[2])
        ELSE Norm((a[1] \div g) * (b[1] \div h), (a[2] \div h) * (b[2] \div g))
RDiv(a, b) == RMul(a, << b[2], b[1] >>)
\* the comparisons, on the numerators over the least common denominator
RLe(a, b) ==
    LET g == GCD(a[2], b[2]) IN a[1] * (b[2] \div g) <= b[1] * (a[2] \div g)
RLt(a, b) ==
    LET g == GCD(a[2], b[2]) IN a[1] * (b[2] \div g) < b[1] * (a[2] \div g)

\* x ** k for an integer-valued exponent k; 0 ** 0 = 1 as in Python.
\* The caller excludes x = 0 with k < 0 (ZeroDivisionError in Python).
RECURSIVE RPow(_, _)
RPow(x, k) ==
    IF k = 0 THEN One
    ELSE IF k < 0 THEN RDiv(One, RPow(x, -k))
    ELSE RMul(x, RPow(x, k - 1))

Range(s) == { s[i] : i \in 1..Len(s) }

\* ------------------------------------------------- float('inf') and None
Infinity == [inf |-> TRUE, val |-> 0]
Fin(n) == [inf |-> FALSE, val |-> n]
\* a < b on floats that may be +infinity
FeeLt(a, b) == ~a.inf /\ (b.inf \/ a.val < b.val)
FeeLe(a, b) == b.inf \/ (~a.inf /\ a.val <= b.val)
\* None, for a path: every list the code builds has at least one node
None == << >>

\* --------------------------------------------------------------- bounds
\* solve() calls made on the one solver object
MaxSolves == 2
\* the ants and the iterations of the demo run (20 and 50 in the source)
DemoAnts == 2
DemoIterations == 2

\* -------------------------------------------------------------- topology
\* MockChannel(source, destination, liquidity, base_fee, fee_rate)
MockChannel(s, d, l, b, r) ==
    [source |-> s, destination |-> d, liquidity |-> l, base_fee |-> b, fee_rate |-> r]

\* the fee without its proportional part
calculate_fee_flat(ch, amount) == ch.base_fee

\* MockChannel.calculate_fee
calculate_fee(ch, amount) == ch.base_fee + (amount * ch.fee_rate)

\* The graphs a solver is built over, each the sequence of its add_channel
\* calls.  Diamond is the shape of the demonstration (two routes to D and a
\* low-liquidity decoy B->C); Cycle has a cycle A->B->C->A, a dead end D and
\* a zero-fee route; Starved has only under-funded channels out of A and a
\* pair of parallel channels; Loop is a single node with a self channel.
Empty == << >>
Diamond ==
    << MockChannel("A", "B", 2, 1, 0), MockChannel("B", "D", 2, 1, 0),
       MockChannel("A", "C", 2, 1, 1), MockChannel("C", "D", 2, 1, 1),
       MockChannel("B", "C", 1, 1, 0) >>
Cycle ==
    << MockChannel("A", "B", 2, 0, 0), MockChannel("B", "C", 2, 0, 0),
       MockChannel("C", "A", 2, 1, 0), MockChannel("B", "D", 2, 2, 0) >>
Starved ==
    << MockChannel("A", "B", 0, 1, 0), MockChannel("A", "B", 1, 2, 0),
       MockChannel("A", "C", 0, 1, 0), MockChannel("B", "C", 2, 1, 0) >>
Loop == << MockChannel("A", "A", 2, 1, 0) >>
Topologies == { Empty, Diamond, Cycle, Starved, Loop }

\* the arguments of the solve() calls: nodes of the graph or not (B, C and D
\* are no nodes of Loop, nothing is a node of Empty), with start = end and
\* every amount above, at or below some channel's liquidity
StartNodes == { "A", "B" }
EndNodes == { "A", "C", "D" }
Amounts == { 1, 2 }

\* ------------------------------------------------------------ parameters
\* The arguments of __init__.  alpha and beta are integer-valued floats,
\* evap_rate is a rational.  The first three satisfy every rule of the
\* parameter contract (alpha, beta >= 0, 0 <= evap_rate <= 1, num_ants > 0,
\* iterations > 0); each of the others breaks exactly one of them.
Params(n, i, a, b, e, q) ==
    [num_ants |-> n, iterations |-> i, alpha |-> a, beta |-> b, evap_rate |-> e, Q |-> q]
ValidParams ==
    { Params(2, 2, 1, 2, << 1, 2 >>, 2),
      Params(1, 2, 1, 1, << 1, 1 >>, 1),
      Params(1, 1, 0, 0, << 0, 1 >>, 1) }
InvalidParams ==
    { Params(0, 1, 1, 1, << 1, 2 >>, 1),
      Params(1, 0, 1, 1, << 1, 2 >>, 1),
      Params(1, 2, -1, 1, << 1, 1 >>, 1),
      Params(1, 1, 1, -1, << 1, 2 >>, 1),
      Params(1, 2, 1, 1, << 2, 1 >>, 1) }
ParamSets == ValidParams \cup InvalidParams

\* the selector's epsilon, 1e-9, in the unit of money
Epsilon == 1

\* ----------------------------------------------------------------- state
VARIABLES
    graph,           \* self.graph: the sequence of add_channel calls
    params,          \* num_ants, iterations, alpha, beta, evaporation_rate, Q
    pheromones,      \* self.pheromones: dict (source, destination) -> level
    best_path,       \* self.best_path
    best_path_fee,   \* self.best_path_fee
    pc,              \* where the caller / solve() stands
    solves,          \* solve() calls made so far
    start_node, end_node, payment_amount,   \* arguments of the current call
    iteration,       \* loop variable of line 59
    ant,             \* ants of this iteration that have been collected
    all_paths,       \* local of solve, line 60
    path, current_node, total_fee,          \* locals of _construct_path
    result,          \* value returned by _construct_path
    returned,        \* value returned by the last solve() that returned
    error,           \* the exception the last solve() left with, if any
    raised_before,   \* history: some solve() on this solver has raised
    hops,            \* history: channels chosen by the current construction
    outcome,         \* history: how the last construction ended
    found,           \* history: complete results reported in this solve()
    fresh_best       \* history: the best solution of the twin run, the same
                     \* call with the same draws on a solver constructed anew

vars ==
    << graph, params, pheromones, best_path, best_path_fee, pc, solves,
       start_node, end_node, payment_amount, iteration, ant, all_paths,
       path, current_node, total_fee, result, returned, error, raised_before,
       hops, outcome, found, fresh_best >>

\* ----------------------------------------------------- MockNetworkGraph
\* MockNetworkGraph.get_all_nodes (as a set: only its size and members matter)
get_all_nodes ==
    { graph[i].source : i \in 1..Len(graph) } \cup
    { graph[i].destination : i \in 1..Len(graph) }

\* MockNetworkGraph.get_outgoing_channels: the channels added with this
\* source, in the order of their add_channel calls
IsFrom(node, ch) == ch.source = node
get_outgoing_channels(source_node) ==
    SelectSeq(graph, LAMBDA ch : IsFrom(source_node, ch))

\* the keys _initialize_pheromones writes
EdgeKeys == { << graph[i].source, graph[i].destination >> : i \in 1..Len(graph) }

\* ------------------------------------------------------------------ dict
\* dict.get(key, default)
Get(d, k, default) == IF k \in DOMAIN d THEN d[k] ELSE default
\* d[key] = value
Put(d, k, v) == [x \in (DOMAIN d) \cup {k} |-> IF x = k THEN v ELSE d[x]]
EmptyDict == [x \in {} |-> Zero]

\* ------------------------------------------------- _select_next_channel
\* line 110 without its liquidity test
FeasibleUnvisited(ch, visited_nodes, amount) ==
    ch.destination \notin Range(visited_nodes)

\* line 110: the next node is unvisited and the channel has the liquidity
Feasible(ch, visited_nodes, amount) ==
    ch.destination \notin Range(visited_nodes) /\ ch.liquidity >= amount

\* lines 119-120 raise ZeroDivisionError on 0.0 ** alpha with alpha < 0
PowFault(level) == level = Zero /\ params.alpha < 0

\* lines 115-122: prob = pheromone_level ** alpha * (1 / (fee + 1e-9)) ** beta
Weight(ch, node, amount) ==
    LET fee == calculate_fee(ch, amount)
        heuristic == RPow(<< 1, fee + Epsilon >>, params.beta)
        pheromone_level == Get(pheromones, << node, ch.destination >>, One)
        pheromone == RPow(pheromone_level, params.alpha)
    IN  RMul(pheromone, heuristic)

\* lines 102-124: the feasible channels of the node, in order
Candidates(node, visited_nodes, amount) ==
    SelectSeq(get_outgoing_channels(node),
              LAMBDA ch : Feasible(ch, visited_nodes, amount))

RECURSIVE SumWeights(_, _, _, _)
SumWeights(cands, node, amount, i) ==
    IF i > Len(cands) THEN Zero
    ELSE RAdd(Weight(cands[i], node, amount), SumWeights(cands, node, amount, i + 1))

\* line 130: the normalised probabilities (total_prob # 0)
Probabilities(cands, node, amount) ==
    LET total_prob == SumWeights(cands, node, amount, 1)
    IN  [i \in 1..Len(cands) |-> RDiv(Weight(cands[i], node, amount), total_prob)]

\* random.uniform(0, 1) draws from [0, 1).  RTop is the draw next to 1 met
\* by a cumulative sum that rounding has left short of it: it lies above
\* every cumulative sum that is at most 1.
RTop == << 1, 1 >>
DrawLe(r, cumulative_prob) ==
    IF r = RTop THEN RLt(One, cumulative_prob) ELSE RLe(r, cumulative_prob)

\* lines 134-140: index of the first channel whose cumulative probability
\* reaches r, the last channel if none does
RECURSIVE Roulette(_, _, _, _)
Roulette(probs, r, i, cumulative_prob) ==
    IF i > Len(probs) THEN Len(probs)
    ELSE LET c == RAdd(cumulative_prob, probs[i])
         IN  IF DrawLe(r, c) THEN i ELSE Roulette(probs, r, i + 1, c)

\* The draws that matter: the roulette returns channel i exactly for the
\* draws of [0, 1) that lie above every earlier cumulative sum and at most
\* the i-th; one draw of each such interval is taken, and RTop.
RECURSIVE CumAt(_, _)
CumAt(probs, i) == IF i = 0 THEN Zero ELSE RAdd(CumAt(probs, i - 1), probs[i])
RMax(a, b) == IF RLe(a, b) THEN b ELSE a
RMin(a, b) == IF RLe(a, b) THEN a ELSE b
RECURSIVE MaxBefore(_, _)
MaxBefore(probs, i) ==
    IF i = 1 THEN << -1, 1 >> ELSE RMax(MaxBefore(probs, i - 1), CumAt(probs, i - 1))
DrawsFor(probs) ==
    LET Rep(i) ==
            LET lo == MaxBefore(probs, i)
                hi == RMin(CumAt(probs, i), One)
            IN  IF RLt(lo, Zero) THEN (IF RLe(Zero, hi) THEN {Zero} ELSE {})
                ELSE IF RLt(lo, hi) THEN {RMul(RAdd(lo, hi), << 1, 2 >>)}
                ELSE {}
    IN  UNION { Rep(i) : i \in 1..Len(probs) } \cup {RTop}

\* _select_next_channel(current_node, visited_nodes, payment_amount) with
\* the draw r: the chosen channel, None, or the fault it raises
SelectNextChannel(node, visited_nodes, amount, r) ==
    LET cands == Candidates(node, visited_nodes, amount)
        faulty == \E i \in 1..Len(cands) :
                     PowFault(Get(pheromones, << node, cands[i].destination >>, One))
    IN  IF faulty THEN [kind |-> "raise"]
        ELSE IF SumWeights(cands, node, amount, 1) = Zero THEN [kind |-> "none"]
        ELSE [kind |-> "channel",
              channel |-> cands[Roulette(Probabilities(cands, node, amount), r, 1, Zero)]]

\* the draws to consider at a selection (none is made unless a channel is
\* to be chosen)
Draws(node, visited_nodes, amount) ==
    LET cands == Candidates(node, visited_nodes, amount)
    IN  IF SelectNextChannel(node, visited_nodes, amount, Zero).kind = "channel"
        THEN DrawsFor(Probabilities(cands, node, amount))
        ELSE {Zero}

\* --------------------------------------------------- _update_pheromones
\* lines 145-146 with the factor written (rate - 1)
EvaporateSignSlip(ph) ==
    [edge \in DOMAIN ph |-> RMul(ph[edge], RSub(params.evap_rate, One))]

\* lines 145-146: evaporation of every stored level
Evaporate(ph) ==
    [edge \in DOMAIN ph |-> RMul(ph[edge], RSub(One, params.evap_rate))]

\* lines 153-159: the deposit on the consecutive pairs i, i+1, ... of a path
RECURSIVE DepositPath(_, _, _, _)
DepositPath(ph, p, pheromone_deposit, i) ==
    IF i > Len(p) - 1 THEN ph
    ELSE LET key == << p[i], p[i + 1] >>
             current_pheromone == Get(ph, key, Zero)
         IN  DepositPath(Put(ph, key, RAdd(current_pheromone, pheromone_deposit)),
                         p, pheromone_deposit, i + 1)

\* line 151: Q / total_fee raises ZeroDivisionError when total_fee is 0
DepositFault(total) == total = 0

\* lines 149-159 from the i-th entry of all_paths on; the loop stops at the
\* first entry whose fee is 0, with the earlier deposits made
RECURSIVE Deposit(_, _, _)
Deposit(ph, paths, i) ==
    IF i > Len(paths) THEN [pheromones |-> ph, raised |-> FALSE]
    ELSE IF DepositFault(paths[i].fee) THEN [pheromones |-> ph, raised |-> TRUE]
    ELSE Deposit(DepositPath(ph, paths[i].path, Norm(params.Q, paths[i].fee), 1),
                 paths, i + 1)

\* the update with its two blocks exchanged: the deposits first, then the
\* evaporation of every level
UpdateDepositFirst(ph, paths) ==
    [pheromones |-> Evaporate(Deposit(ph, paths, 1).pheromones),
     raised |-> Deposit(ph, paths, 1).raised]

\* _update_pheromones(all_paths)
UpdatePheromones(ph, paths) == Deposit(Evaporate(ph), paths, 1)

\* ------------------------------------------------ _initialize_pheromones
\* lines 41-43 with the key written (channel.destination, node)
InitializeReversed(ph) ==
    [key \in (DOMAIN ph) \cup { << k[2], k[1] >> : k \in EdgeKeys } |->
        IF key \in { << k[2], k[1] >> : k \in EdgeKeys } THEN One ELSE ph[key]]

\* lines 41-43: every channel's key is set to 1.0; other keys are kept
InitializePheromones(ph) ==
    [key \in (DOMAIN ph) \cup EdgeKeys |-> IF key \in EdgeKeys THEN One ELSE ph[key]]

\* ------------------------------------------------------------- __init__
\* a name for "no node": the arguments before the first call
NoNode == "-"
NoResult == [path |-> None, fee |-> Infinity]
NoError == "none"
\* the ZeroDivisionError of 0.0 ** alpha (line 120) and of Q / 0 (line 151)
PowError == "ZeroDivisionError: 0.0 cannot be raised to a negative power"
DivError == "ZeroDivisionError: division by zero"

\* lines 24-37: the solver as constructed
Init ==
    /\ graph \in Topologies
    /\ params \in ParamSets
    /\ pheromones = EmptyDict
    /\ best_path = None
    /\ best_path_fee = Infinity
    /\ pc = "idle"
    /\ solves = 0
    /\ start_node = NoNode /\ end_node = NoNode /\ payment_amount = 0
    /\ iteration = 0 /\ ant = 0 /\ all_paths = << >>
    /\ path = None /\ current_node = NoNode /\ total_fee = 0
    /\ result = NoResult
    /\ returned = NoResult
    /\ error = NoError
    /\ raised_before = FALSE
    /\ hops = << >> /\ outcome = "none" /\ found = {}
    /\ fresh_best = NoResult

solver == << graph, params, raised_before >>
arguments == << start_node, end_node, payment_amount >>
construction == << path, current_node, total_fee, hops >>

\* ---------------------------------------------------------------- solve
\* line 57: a call of solve(start_node, end_node, payment_amount) on the
\* solver, after construction or after an earlier call has ended
Solve(s, e, amount) ==
    /\ pc \in {"idle", "returned", "raised"}
    /\ solves < MaxSolves
    /\ solves' = solves + 1
    /\ start_node' = s /\ end_node' = e /\ payment_amount' = amount
    /\ pheromones' = InitializePheromones(pheromones)
    /\ iteration' = 0 /\ ant' = 0 /\ all_paths' = << >>
    /\ path' = None /\ current_node' = NoNode /\ total_fee' = 0 /\ hops' = << >>
    /\ result' = NoResult /\ outcome' = "none" /\ found' = {}
    /\ fresh_best' = NoResult
    /\ returned' = NoResult
    /\ error' = NoError
    /\ pc' = "for_iteration"
    /\ UNCHANGED << solver, best_path, best_path_fee >>

\* lines 59-60: one more iteration begins
BeginIteration ==
    /\ pc = "for_iteration"
    /\ iteration < params.iterations
    /\ all_paths' = << >>
    /\ ant' = 0
    /\ pc' = "for_ant"
    /\ UNCHANGED << solver, arguments, pheromones, best_path, best_path_fee, solves,
                    iteration, construction, result, returned, error, outcome, found,
                    fresh_best >>

\* line 74: the iterations are over, solve returns
Return ==
    /\ pc = "for_iteration"
    /\ iteration >= params.iterations
    /\ returned' = [path |-> best_path, fee |-> best_path_fee]
    /\ pc' = "returned"
    /\ UNCHANGED << solver, arguments, pheromones, best_path, best_path_fee, solves,
                    iteration, ant, all_paths, construction, result, error, outcome, found,
                    fresh_best >>

\* lines 61-63 and 78-83: the next ant starts its construction
BeginConstruction ==
    /\ pc = "for_ant"
    /\ ant < params.num_ants
    /\ path' = << start_node >>
    /\ current_node' = start_node
    /\ total_fee' = 0
    /\ hops' = << >>
    /\ pc' = "while"
    /\ UNCHANGED << solver, arguments, pheromones, best_path, best_path_fee, solves,
                    iteration, ant, all_paths, result, returned, error, outcome, found,
                    fresh_best >>

\* ------------------------------------------------------ _construct_path
\* line 83 one short: len(nodes) - 1
max_path_length_short == Cardinality(get_all_nodes) - 1
\* line 83: len(self.graph.get_all_nodes())
max_path_length == Cardinality(get_all_nodes)
\* line 85
LoopCondition == current_node # end_node /\ Len(path) < max_path_length

\* lines 86, 91-93: a channel is chosen and followed
Advance ==
    /\ pc = "while"
    /\ LoopCondition
    /\ \E r \in Draws(current_node, path, payment_amount) :
         LET next_channel == SelectNextChannel(current_node, path, payment_amount, r)
         IN  /\ next_channel.kind = "channel"
             /\ total_fee' = total_fee + calculate_fee(next_channel.channel, payment_amount)
             /\ current_node' = next_channel.channel.destination
             /\ path' = Append(path, next_channel.channel.destination)
             /\ hops' = Append(hops, next_channel.channel)
    /\ UNCHANGED << solver, arguments, pheromones, best_path, best_path_fee, solves, pc,
                    iteration, ant, all_paths, result, returned, error, outcome, found,
                    fresh_best >>

\* the construction hands its value back to solve
Finish(p, fee, how) ==
    /\ result' = [path |-> p, fee |-> fee]
    /\ outcome' = how
    /\ pc' = "collect"
    /\ UNCHANGED << solver, arguments, pheromones, best_path, best_path_fee, solves,
                    iteration, ant, all_paths, construction, returned, error, found,
                    fresh_best >>

\* lines 86-89: the selector returns None, the ant is stuck
Stuck ==
    /\ pc = "while"
    /\ LoopCondition
    /\ SelectNextChannel(current_node, path, payment_amount, Zero).kind = "none"
    /\ Finish(None, Infinity, "stuck")

\* lines 95-96: the loop has ended at the end node
Complete ==
    /\ pc = "while"
    /\ ~LoopCondition
    /\ current_node = end_node
    /\ Finish(path, Fin(total_fee), "complete")

\* lines 97-98: the loop has ended elsewhere
NotFound ==
    /\ pc = "while"
    /\ ~LoopCondition
    /\ current_node # end_node
    /\ Finish(None, Infinity, "not_found")

\* an exception leaves solve: its locals are gone, the solver's fields stay
Raise(exception) ==
    /\ pc' = "raised"
    /\ error' = exception
    /\ raised_before' = TRUE
    /\ iteration' = 0 /\ ant' = 0 /\ all_paths' = << >>
    /\ path' = None /\ current_node' = NoNode /\ total_fee' = 0 /\ hops' = << >>
    /\ result' = NoResult
    /\ UNCHANGED << graph, params, arguments, best_path, best_path_fee, solves,
                    returned, outcome, found,
                    fresh_best >>

\* lines 119-120: 0.0 ** alpha with alpha < 0 raises ZeroDivisionError
SelectRaises ==
    /\ pc = "while"
    /\ LoopCondition
    /\ SelectNextChannel(current_node, path, payment_amount, Zero).kind = "raise"
    /\ pheromones' = pheromones
    /\ Raise(PowError)

\* lines 65-69: `if path:` holds for every list, which is never empty
Truthy(p) == p # None
\* line 67 without its comparison: the latest complete path always wins
BetterLatest(fee, best) == TRUE
\* line 67 with <= for <: a path as cheap as the best one replaces it
BetterOrEqual(fee, best) == FeeLe(fee, best)
\* line 67: total_fee < self.best_path_fee
Better(fee, best) == FeeLt(fee, best)
\* lines 65-71 with the update (line 71) inside the loop over the ants: the
\* levels are updated as each ant comes in
CollectThenUpdate ==
    /\ pc = "collect"
    /\ IF Truthy(result.path)
       THEN /\ all_paths' = Append(all_paths, [path |-> result.path, fee |-> result.fee.val])
            /\ found' = found \cup {[path |-> result.path, fee |-> result.fee.val, hops |-> hops]}
            /\ IF Better(result.fee, best_path_fee)
               THEN best_path' = result.path /\ best_path_fee' = result.fee
               ELSE UNCHANGED << best_path, best_path_fee >>
            /\ IF Better(result.fee, fresh_best.fee)
               THEN fresh_best' = [path |-> result.path, fee |-> result.fee]
               ELSE UNCHANGED fresh_best
       ELSE UNCHANGED << all_paths, found, best_path, best_path_fee, fresh_best >>
    /\ pheromones' = UpdatePheromones(pheromones, all_paths').pheromones
    /\ ant' = ant + 1
    /\ pc' = "for_ant"
    /\ UNCHANGED << solver, arguments, solves, iteration, construction,
                    result, returned, error, outcome >>

Collect ==
    /\ pc = "collect"
    /\ IF Truthy(result.path)
       THEN /\ all_paths' = Append(all_paths, [path |-> result.path, fee |-> result.fee.val])
            /\ found' = found \cup {[path |-> result.path, fee |-> result.fee.val, hops |-> hops]}
            /\ IF Better(result.fee, best_path_fee)
               THEN best_path' = result.path /\ best_path_fee' = result.fee
               ELSE UNCHANGED << best_path, best_path_fee >>
            /\ IF Better(result.fee, fresh_best.fee)
               THEN fresh_best' = [path |-> result.path, fee |-> result.fee]
               ELSE UNCHANGED fresh_best
       ELSE UNCHANGED << all_paths, found, best_path, best_path_fee, fresh_best >>
    /\ ant' = ant + 1
    /\ pc' = "for_ant"
    /\ UNCHANGED << solver, arguments, pheromones, solves, iteration, construction,
                    result, returned, error, outcome >>

\* lines 71-72: every ant of the iteration is in, the pheromones are updated
Update ==
    /\ pc = "for_ant"
    /\ ant >= params.num_ants
    /\ ~UpdatePheromones(pheromones, all_paths).raised
    /\ pheromones' = UpdatePheromones(pheromones, all_paths).pheromones
    /\ iteration' = iteration + 1
    /\ pc' = "for_iteration"
    /\ UNCHANGED << solver, arguments, best_path, best_path_fee, solves, ant, all_paths,
                    construction, result, returned, error, outcome, found,
                    fresh_best >>

\* line 151: the update raises ZeroDivisionError on a path of fee 0
UpdateRaises ==
    /\ pc = "for_ant"
    /\ ant >= params.num_ants
    /\ UpdatePheromones(pheromones, all_paths).raised
    /\ pheromones' = UpdatePheromones(pheromones, all_paths).pheromones
    /\ Raise(DivError)

Next ==
    \/ \E s \in StartNodes, e \in EndNodes, amount \in Amounts : Solve(s, e, amount)
    \/ BeginIteration
    \/ Return
    \/ BeginConstruction
    \/ Advance
    \/ Stuck
    \/ Complete
    \/ NotFound
    \/ SelectRaises
    \/ Collect
    \/ Update
    \/ UpdateRaises

Spec == Init /\ [][Next]_vars

\* ----------------------------------------------------------- __main__
\* lines 200-209: the demo network.  Amounts are in units of 100 and fees in
\* units of 0.1: liquidity 1000 and 500 are 10 and 5, base_fee 1 and 5 are 10
\* and 50, fee_rate 0.001 and 0.005 per unit sent are 1 and 5 per 100 sent.
\* Epsilon is then one fee unit instead of 1e-9 of one: the probabilities
\* differ a little from the demo's, the channels that can be chosen do not.
Demo ==
    << MockChannel("A", "B", 10, 10, 1), MockChannel("B", "D", 10, 10, 1),
       MockChannel("A", "C", 10, 50, 5), MockChannel("C", "D", 10, 50, 5),
       MockChannel("B", "C", 5, 10, 1) >>

\* lines 212-218: ACO_PARAMS, and the default Q = 100 in units of 0.1
DemoParams == Params(DemoAnts, DemoIterations, 1, 2, << 1, 2 >>, 1000)

\* lines 221-223: amount = 100
DemoAmount == 1

\* line 226: the solver of the demo as constructed
InitDemo ==
    /\ graph = Demo
    /\ params = DemoParams
    /\ pheromones = EmptyDict
    /\ best_path = None
    /\ best_path_fee = Infinity
    /\ pc = "idle"
    /\ solves = 0
    /\ start_node = NoNode /\ end_node = NoNode /\ payment_amount = 0
    /\ iteration = 0 /\ ant = 0 /\ all_paths = << >>
    /\ path = None /\ current_node = NoNode /\ total_fee = 0
    /\ result = NoResult
    /\ returned = NoResult
    /\ error = NoError
    /\ raised_before = FALSE
    /\ hops = << >> /\ outcome = "none" /\ found = {}
    /\ fresh_best = NoResult

\* line 227: solve(start, end, amount), and the steps it can take on the demo
\* network, where no ant is stuck and nothing raises
NextDemo ==
    \/ Solve("A", "D", DemoAmount)
    \/ BeginIteration
    \/ Return
    \/ BeginConstruction
    \/ Advance
    \/ Complete
    \/ Collect
    \/ Update

SpecDemo == InitDemo /\ [][NextDemo]_vars

\* ======================================================================
\* Properties
\* ======================================================================
validRate == RLe(Zero, params.evap_rate) /\ RLe(params.evap_rate, One)

\* C1: the best fee never increases: no step of a solve (an ant's result
\* collected, an iteration ended) leaves best_path_fee above what it was.
C1_BestFeeNeverIncreases == [][FeeLe(best_path_fee', best_path_fee)]_vars

\* a solve has collected a complete path dearer than the best one it found
C1_Witness ==
    /\ pc = "for_ant"
    /\ \E f \in found, g \in found :
         best_path_fee = Fin(g.fee) /\ best_path = g.path /\ f.fee > g.fee

\* a path p from s to e over channels of the graph, without repeated node,
\* of at most as many nodes as the graph has
WellFormed(p, s, e) ==
    /\ Len(p) >= 1
    /\ p[1] = s
    /\ p[Len(p)] = e
    /\ \A i \in 1..(Len(p) - 1) : << p[i], p[i + 1] >> \in EdgeKeys
    /\ \A i \in 1..Len(p), j \in 1..Len(p) : p[i] = p[j] => i = j
    /\ Len(p) <= Cardinality(get_all_nodes)

\* the parameter contract: alpha, beta >= 0, 0 <= evaporation_rate <= 1,
\* num_ants > 0, iterations > 0
validParams ==
    /\ params.alpha >= 0 /\ params.beta >= 0
    /\ validRate
    /\ params.num_ants > 0 /\ params.iterations > 0

\* a solver used as the contract admits: its parameters are valid and no
\* earlier call on it has ended in an exception
regularUse == validParams /\ ~raised_before

\* C2: every path solve returns (being a path some construction reported as
\* complete) starts at the call's start_node, ends at its end_node, follows
\* directed edges of the topology, repeats no node and has at most as many
\* nodes as the graph.  Stated for regular use of the solver.
C2_ReturnedPathWellFormed ==
    (regularUse /\ pc = "returned" /\ returned.path # None)
        => WellFormed(returned.path, start_node, end_node)

\* C3: every channel an ant has followed, in the construction under way and
\* in every complete path of this solve, has liquidity >= payment_amount,
\* whatever the draw (the fallback draw RTop included).
C3_LiquidityRespected ==
    /\ \A i \in 1..Len(hops) : hops[i].liquidity >= payment_amount
    /\ \A f \in found : \A i \in 1..Len(f.hops) : f.hops[i].liquidity >= payment_amount

\* a complete path has passed a node with an under-funded channel to a node
\* the ant had not visited
C3_Witness ==
    /\ pc = "collect" /\ outcome = "complete"
    /\ \E j \in 1..(Len(path) - 1), i \in 1..Len(graph) :
         /\ graph[i].source = path[j]
         /\ graph[i].liquidity < payment_amount
         /\ graph[i].destination \notin { path[k] : k \in 1..j }

\* C4: with evaporation_rate in [0, 1] (Q and the fees of the graphs are
\* non-negative), every stored pheromone level is >= 0 at every moment.
C4_LevelsNonNegative ==
    (validRate /\ params.Q >= 0)
        => \A edge \in DOMAIN pheromones : RLe(Zero, pheromones[edge])

\* after an update with a valid rate, one level has decayed to 0 and another
\* holds a deposit
C4_Witness ==
    /\ validRate /\ iteration >= 1
    /\ \E a \in DOMAIN pheromones, b \in DOMAIN pheromones :
         pheromones[a] = Zero /\ RLt(Zero, pheromones[b])

\* the fee of a sequence of channels at an amount
RECURSIVE SumFees(_, _, _)
SumFees(channels, amount, i) ==
    IF i > Len(channels) THEN 0
    ELSE calculate_fee(channels[i], amount) + SumFees(channels, amount, i + 1)

\* C5: at the end of every iteration and at return, the best solution is the
\* complete path of least fee among those found in this solve ((None, inf) if
\* none was found), and its fee is the sum of the fees, at payment_amount, of
\* the channels the path follows.  Stated for regular use of the solver.
C5_BestIsCheapestFound ==
    (regularUse /\ (pc = "returned" \/ (pc = "for_iteration" /\ iteration >= 1)))
        => IF found = {}
           THEN best_path = None /\ best_path_fee = Infinity
           ELSE \E f \in found :
                  /\ best_path = f.path /\ best_path_fee = Fin(f.fee)
                  /\ \A g \in found : f.fee <= g.fee
                  /\ f.fee = SumFees(f.hops, payment_amount, 1)

\* C6: every solve call starts from the best solution (None, inf) and from
\* level 1.0 on every edge of the topology, and returns (None, inf) or a path
\* from its start_node to its end_node.  Stated for regular use of the solver.
C6_FreshSolve ==
    /\ (regularUse /\ pc = "for_iteration" /\ iteration = 0)
          => /\ best_path = None /\ best_path_fee = Infinity
             /\ \A edge \in EdgeKeys : edge \in DOMAIN pheromones /\ pheromones[edge] = One
    /\ (regularUse /\ pc = "returned")
          => \/ returned = NoResult
             \/ /\ returned.path # None
                /\ returned.path[1] = start_node
                /\ returned.path[Len(returned.path)] = end_node

\* no channel of the graph leads into the node
NoEdgeInto(node) == \A i \in 1..Len(graph) : graph[i].destination # node

\* C7: when no edge leads into end_node and start_node # end_node, every ant
\* fails, no exception is raised, every iteration is run with all its ants,
\* and solve returns (None, inf).  Stated for regular use of the solver.
C7_UnreachableEnd ==
    (regularUse /\ pc # "idle" /\ NoEdgeInto(end_node) /\ start_node # end_node)
        => /\ pc # "raised"
           /\ found = {}
           /\ pc = "collect" => result = NoResult
           /\ pc = "for_iteration" => ant = (IF iteration = 0 THEN 0 ELSE params.num_ants)
           /\ pc = "returned" => iteration = params.iterations /\ returned = NoResult

\* the node has outgoing channels and none of them can carry the amount
StartStarved(node, amount) ==
    /\ \E i \in 1..Len(graph) : graph[i].source = node
    /\ \A i \in 1..Len(graph) : graph[i].source = node => graph[i].liquidity < amount

\* C8: when every channel out of start_node has liquidity below
\* payment_amount and start_node # end_node, every ant is stuck at its first
\* selection, nothing is deposited, and solve returns (None, inf).  Stated for
\* regular use of the solver.
C8_StarvedStart ==
    (regularUse /\ pc # "idle" /\ StartStarved(start_node, payment_amount)
       /\ start_node # end_node)
        => /\ pc = "collect" => outcome = "stuck" /\ hops = << >>
           /\ found = {} /\ all_paths = << >>
           /\ pc = "returned" => returned = NoResult

\* C9: with invalid parameters solve fails at entry: the pheromones are never
\* initialised, no path is constructed, nothing is returned.
C9_InvalidParamsRejected ==
    ~validParams
        => /\ pc \in {"idle", "raised"}
           /\ pheromones = EmptyDict
           /\ returned = NoResult

\* C10: a complete path of fee 0 (zero-fee channels, or start_node =
\* end_node) never makes solve raise a division fault in the update.
C10_ZeroFeeGuarded == error # DivError

\* C13: the selector reports "stuck" exactly when the current node has no
\* feasible outgoing channel: with evaporation_rate in [0, 1] (1 included) and
\* alpha, beta >= 0, whenever a feasible channel exists the weights sum to more
\* than 0 and the ant is not stuck.  Stated for regular use of the solver.
C13_StuckOnlyWithoutFeasibleEdge ==
    /\ (regularUse /\ pc = "while" /\ LoopCondition
          /\ Candidates(current_node, path, payment_amount) # << >>)
          => RLt(Zero, SumWeights(Candidates(current_node, path, payment_amount),
                                  current_node, payment_amount, 1))
    /\ (regularUse /\ pc = "collect" /\ outcome = "stuck")
          => Candidates(current_node, path, payment_amount) = << >>

\* the number of times a path crosses an edge
Occurrences(p, edge) ==
    Cardinality({ i \in 1..(Len(p) - 1) : << p[i], p[i + 1] >> = edge })

\* the sum of Q / fee over every crossing of the edge by the paths i, i+1, ...
RECURSIVE SumDeposits(_, _, _)
SumDeposits(paths, edge, i) ==
    IF i > Len(paths) THEN Zero
    ELSE RAdd(RMul(<< Occurrences(paths[i].path, edge), 1 >>,
                   RDiv(<< params.Q, 1 >>, << paths[i].fee, 1 >>)),
              SumDeposits(paths, edge, i + 1))

\* C14: an update that completes leaves on every edge the level
\* (1 - evaporation_rate) * old + the sum of Q / fee over every crossing of
\* the edge by a complete path of the round: the decay reaches every level and
\* comes before the deposits, an edge on no complete path only decays, and the
\* round's failed ants (absent from all_paths) deposit nothing.
C14_UpdateFormula ==
    [][(pc = "for_ant" /\ pc' = "for_iteration")
         => /\ DOMAIN pheromones' = DOMAIN pheromones
            /\ \A edge \in DOMAIN pheromones :
                 pheromones'[edge] =
                     RAdd(RMul(RSub(One, params.evap_rate), pheromones[edge]),
                          SumDeposits(all_paths, edge, 1))]_vars

\* an update with a rate strictly between 0 and 1 has ended a round in which
\* one ant failed and another completed, with an edge on no complete path
C14_Witness ==
    /\ pc = "for_iteration" /\ iteration >= 1
    /\ RLt(Zero, params.evap_rate) /\ RLt(params.evap_rate, One)
    /\ 0 < Len(all_paths) /\ Len(all_paths) < params.num_ants
    /\ \E a \in DOMAIN pheromones, b \in DOMAIN pheromones :
         /\ SumDeposits(all_paths, a, 1) = Zero
         /\ RLt(Zero, SumDeposits(all_paths, b, 1))

\* the positions of solve inside the loop over the ants of one iteration
inRound(position) == position \in {"for_ant", "while", "collect"}

\* C15: the update of an iteration comes after the constructions of all
\* num_ants ants of that iteration and before any construction of the next:
\* no step inside the loop over the ants changes a level or the iteration, so
\* every ant of an iteration reads the same levels; the loop is left, for the
\* update, only when num_ants constructions are in; the update ends the
\* iteration; and the step that begins the next iteration keeps the levels the
\* update left.
C15_UpdateBetweenRounds ==
    [][/\ (inRound(pc) /\ inRound(pc'))
            => pheromones' = pheromones /\ iteration' = iteration
       /\ (pc = "for_ant" /\ pc' = "while") => ant < params.num_ants
       /\ (pc = "collect") => pc' = "for_ant" /\ ant' = ant + 1
       /\ (pc = "for_ant" /\ ~inRound(pc')) => ant = params.num_ants
       /\ (pc = "for_ant" /\ pc' = "for_iteration") => iteration' = iteration + 1
       /\ (pc = "for_iteration") => pheromones' = pheromones /\ iteration' = iteration
      ]_vars

\* the second ant of a later iteration is under way, on levels that the
\* update of the iteration before has changed
C15_Witness ==
    /\ pc = "while" /\ iteration >= 1 /\ ant >= 1
    /\ Len(path) >= 2
    /\ \E a \in DOMAIN pheromones : pheromones[a] # One

\* C16: path construction and channel selection read the pheromones and the
\* best solution and write neither.  Once solve has initialised the
\* pheromones, they change only in the update that ends an iteration; the
\* best solution changes only where solve collects an ant's result, and only
\* to a complete path whose fee is strictly below the best fee.
C16_Frame ==
    [][/\ (pc = "while")
            => /\ pheromones' = pheromones
               /\ best_path' = best_path /\ best_path_fee' = best_path_fee
       /\ (pheromones' # pheromones /\ pc \notin {"idle", "returned", "raised"})
            => /\ pc = "for_ant" /\ ant >= params.num_ants
               /\ pc' \in {"for_iteration", "raised"}
       /\ (best_path' # best_path \/ best_path_fee' # best_path_fee)
            => /\ pc = "collect" /\ result.path # None
               /\ FeeLt(result.fee, best_path_fee)
               /\ best_path' = result.path /\ best_path_fee' = result.fee
      ]_vars

\* after an update, a solve has collected two different complete paths of the
\* same fee, and the best solution is one of them
C16_Witness ==
    /\ pc = "for_ant" /\ iteration >= 1
    /\ \E a \in DOMAIN pheromones : pheromones[a] # One
    /\ \E f \in found, g \in found :
         /\ f.path # g.path /\ f.fee = g.fee
         /\ best_path = f.path /\ best_path_fee = Fin(f.fee)

\* the channel selections made so far by the construction under way: one per
\* channel followed, and one more for the selection that found the ant stuck
selections == Len(hops) + (IF pc = "collect" /\ outcome = "stuck" THEN 1 ELSE 0)

\* C17: with valid parameters, each construction makes at most
\* (node count - 1) channel selections (stated for graphs with a node), and
\* solve ends by returning after exactly `iterations` updates, each of them
\* after num_ants constructions: nothing ends an iteration or the solve early.
C17_RunsToCompletion ==
    validParams
        => /\ (pc \in {"while", "collect"} /\ graph # Empty)
                => selections <= Cardinality(get_all_nodes) - 1
           /\ pc # "raised"
           /\ pc = "returned" => iteration = params.iterations
           /\ (pc = "for_iteration" /\ iteration >= 1) => ant = params.num_ants

\* C18: in a solve whose start_node and end_node are both nodes of the
\* topology, a construction fails only by being stuck: the loop never ends on
\* the length bound away from end_node, so the "path not found" branch is
\* never taken, and a construction that stands on end_node is reported as a
\* complete path, whatever its length.
C18_NotFoundUnreachable ==
    (pc # "idle" /\ start_node \in get_all_nodes /\ end_node \in get_all_nodes)
        => /\ outcome # "not_found"
           /\ (pc = "while" /\ ~LoopCondition) => current_node = end_node
           /\ (pc = "collect" /\ current_node = end_node)
                => outcome = "complete" /\ result.path = path

\* a complete path between two nodes of the topology that visits every node:
\* its construction ended with the length bound reached
C18_Witness ==
    /\ pc = "collect" /\ outcome = "complete"
    /\ start_node \in get_all_nodes /\ end_node \in get_all_nodes
    /\ Len(path) >= 3
    /\ Len(path) = max_path_length

\* C19: from the initialisation at solve entry to the end of the solve, and
\* on to the next call, the keys of the pheromone dictionary are exactly the
\* (source, destination) pairs of the channels of the graph: no update adds or
\* removes a key.  So the selector's lookup (default 1.0) and the deposit's
\* lookup (default 0) always find their key.
C19_KeysAreEdges ==
    (pc # "idle")
        => /\ DOMAIN pheromones = EdgeKeys
           /\ (pc = "while")
                => \A i \in 1..Len(get_outgoing_channels(current_node)) :
                     << current_node, get_outgoing_channels(current_node)[i].destination >>
                         \in DOMAIN pheromones
           /\ \A i \in 1..Len(all_paths) : \A j \in 1..(Len(all_paths[i].path) - 1) :
                << all_paths[i].path[j], all_paths[i].path[j + 1] >> \in DOMAIN pheromones

\* an update has deposited on a path of two channels or more, in a graph with
\* a channel whose reverse is no channel
C19_Witness ==
    /\ pc = "for_iteration" /\ iteration >= 1
    /\ \E i \in 1..Len(all_paths) : Len(all_paths[i].path) >= 3
    /\ \E a \in DOMAIN pheromones :
         /\ RLt(One, pheromones[a])
         /\ << a[2], a[1] >> \notin DOMAIN pheromones

\* C11: the result of a solve is a function of the topology, the parameters,
\* the arguments and the draws only: the call returns the best path and fee
\* that its twin returns, the same call fed the same draws on a solver
\* constructed anew.  (The twin starts from the same levels, 1.0 on every
\* edge, meets the same draws and so walks the same paths and passes through
\* the same pheromone states; fresh_best is its best solution.)  Stated for
\* regular use of the solver.
C11_ResultDependsOnInputsAndDraws ==
    (regularUse /\ pc = "returned") => returned = fresh_best

\* the three routes of the demo network from A to D that can carry the
\* amount, with their fees in units of 0.1: 2.2, 7.7 and 11.0
DemoRoutes ==
    { [path |-> << "A", "B", "D" >>, fee |-> Fin(22)],
      [path |-> << "A", "B", "C", "D" >>, fee |-> Fin(77)],
      [path |-> << "A", "C", "D" >>, fee |-> Fin(110)] }

====
